---- MODULE Spec2Model ----
(***************************************************************************)
(* Room synchronisation engine of src/app.py: the per-room turn registry   *)
(* (room_turn_queues and its room_turn_orders mirror), the playback queue  *)
(* (queue_items), the room clock (room_clock) and the Socket.IO handlers   *)
(* that mutate them.  Each handler is one atomic action; add_video is also *)
(* given step by step, split where it waits for the database.              *)
(***************************************************************************)
EXTENDS Integers, Sequences, FiniteSets, TLC

VARIABLES
    Room,               \* rows of table rooms: [name, created_by]
    RoomTurnOrder,      \* table room_turn_orders: canonical room name -> usernames by position
    QueueItem,          \* rows of table queue_items: [id, room_id, video_url, added_by]
    id_seq,             \* largest queue_items.id ever assigned
    room_turn_queues,   \* room_name -> deque of usernames (in memory)
    room_clock,         \* room_name -> [video_id, base, started_at]
    user_rooms,         \* sid -> room_name
    conns,              \* sid -> [live, user, username, current_room]: the connection, its
                        \* current_user and its session['username'], session['current_room']
    now,                \* time()
    out,                \* events emitted by the handler that ran last
    ev,                 \* the handler that ran last, its inputs and the state it started from
    pending,            \* sid -> the locals of an add_video handler that has not returned yet
    waited,             \* username -> admitted adds since that name was last head of the
                        \* Main Room registry (a history variable; joins and leaves reset it)
    reports             \* sid -> [item, sent]: the item whose playback ended in that
                        \* session's player, and whether its video_ended is still on the way

vars == <<Room, RoomTurnOrder, QueueItem, id_seq, room_turn_queues, room_clock,
          user_rooms, conns, now, out, ev, pending, waited, reports>>

\* ----------------------------------------------------------------- bounds
\* ids given to queue rows in Spec and in SpecQueue, and the reach of time()
MaxItems == 2
MaxQueueItems == 3
MaxTime == 1

\* ------------------------------------------------------------- constants
None == "None"
MAIN_ROOM_NAME == "Main Room"
JAM == "Jam"
\* registered accounts (table users); none has is_admin set
Users == {"Blake", "A", "B"}
Admins == {}
\* room names a client may name in join_room or hold in session['current_room']
RoomNames == {MAIN_ROOM_NAME, JAM}
\* the account that creates the room JAM, and the usernames a client passes to join_room
Creators == {"A"}
SuppliedNames == {"B"}
Sids == {1, 2}
\* the text 'https://www.youtube.com/watch?' is the single token "W"
WATCH_PREFIX == <<"W", "v", "=">>
VideoIds == {<<>>, <<"x">>}
QueueVideoIds == {<<>>, <<"x">>, <<"y">>}

\* str.lower() on the room names in play
Lower(s) ==
    CASE s = "Main Room" -> "main room"
      [] s = "main room" -> "main room"
      [] s = "Jam" -> "jam"
      [] s = "jam" -> "jam"
      [] OTHER -> s

\* ------------------------------------------------------- string helpers
\* first index >= from at which pat occurs in s, 0 if none (str.find)
RECURSIVE Find(_, _, _)
Find(s, pat, from) ==
    IF from + Len(pat) - 1 > Len(s) THEN 0
    ELSE IF SubSeq(s, from, from + Len(pat) - 1) = pat THEN from
    ELSE Find(s, pat, from + 1)

\* pat in s
Contains(s, pat) == Find(s, pat, 1) # 0

\* s.split(pat)[0]
SplitAt0(s, pat) ==
    LET i == Find(s, pat, 1)
    IN  IF i = 0 THEN s ELSE SubSeq(s, 1, i - 1)

\* s.split(pat)[1], for s that contains pat
SplitAt1(s, pat) ==
    LET i == Find(s, pat, 1)
        rest == SubSeq(s, i + Len(pat), Len(s))
    IN  SplitAt0(rest, pat)

extract_video_id(video_url) ==
    IF Contains(video_url, <<"v", "=">>)
    THEN SplitAt0(SplitAt1(video_url, <<"v", "=">>), <<"&">>)
    ELSE IF Contains(video_url, <<"youtu.be/">>)
    THEN SplitAt0(SplitAt1(video_url, <<"youtu.be/">>), <<"?">>)
    ELSE video_url

\* ------------------------------------------------------------ DB reads
\* Room.query.filter(func.lower(Room.name) == room_name.lower()).first()
NoRoom == [name |-> None, created_by |-> None]
get_room_by_name(room_name) ==
    IF \E r \in Room : Lower(r.name) = Lower(room_name)
    THEN CHOOSE r \in Room : Lower(r.name) = Lower(room_name)
    ELSE NoRoom

Max(S) == CHOOSE x \in S : \A y \in S : y <= x

\* ORDER BY QueueItem.id
RECURSIVE OrderById(_)
OrderById(items) ==
    IF items = {} THEN <<>>
    ELSE LET first == CHOOSE i \in items : \A j \in items : i.id <= j.id
         IN  <<first>> \o OrderById(items \ {first})

ItemsOf(items, room) == {i \in items : i.room_id = room.name}

get_queue_for_room(items, room_name) ==
    LET room == get_room_by_name(room_name)
    IN  IF room = NoRoom THEN <<>> ELSE OrderById(ItemsOf(items, room))

NoItem == [id |-> 0, room_id |-> None, video_url |-> <<>>, added_by |-> None]
get_current_video_for_room(items, room_name) ==
    LET room == get_room_by_name(room_name)
    IN  IF room = NoRoom \/ ItemsOf(items, room) = {} THEN NoItem
        ELSE CHOOSE i \in ItemsOf(items, room) : \A j \in ItemsOf(items, room) : i.id <= j.id

\* GET /api/queue/<room_id> of api/queue/get_queue.py: the rows it lists
get_queue(items, room_id) == OrderById({i \in items : i.room_id = room_id})

convert_queue_to_old_format(queue_items) ==
    [k \in 1..Len(queue_items) |-> extract_video_id(queue_items[k].video_url)]

\* skip_current_video that deletes the newest row of the room
skip_current_video_last(items, room_name) ==
    LET room == get_room_by_name(room_name)
    IN  IF room = NoRoom \/ ItemsOf(items, room) = {} THEN items
        ELSE items \ {CHOOSE i \in ItemsOf(items, room) : \A j \in ItemsOf(items, room) : j.id <= i.id}

\* the rows left by skip_current_video
skip_current_video(items, room_name) ==
    LET current_video == get_current_video_for_room(items, room_name)
    IN  IF current_video = NoItem THEN items ELSE items \ {current_video}

user_can_moderate(user, room_name) ==
    LET room == get_room_by_name(room_name)
    IN  \/ user \in Users /\ user \in Admins
        \/ user \in Users /\ room # NoRoom /\ room.created_by = user
        \/ user \in Users /\ user = "Blake" /\ room_name = MAIN_ROOM_NAME

\* ------------------------------------------------------- turn registry
\* room_turn_queues after get_turn_queue(room_name): hydrated from the mirror on first use
get_turn_queue(rtq, room_name) ==
    IF room_name \in DOMAIN rtq THEN rtq
    ELSE LET room == get_room_by_name(room_name)
         IN  rtq @@ (room_name :> IF room # NoRoom THEN RoomTurnOrder[room.name] ELSE <<>>)

\* save_turn_queue that never writes
save_turn_queue_noop(rto, room_name, tq, ok) == rto

\* save_turn_queue whose delete survives the failed commit
save_turn_queue_partial(rto, room_name, tq, ok) ==
    LET room == get_room_by_name(room_name)
    IN  IF room = NoRoom THEN rto
        ELSE [rto EXCEPT ![room.name] = IF ok THEN tq ELSE <<>>]

\* table room_turn_orders after save_turn_queue(room_name) with deque tq; ok: the commit succeeds
\* (a failed commit is rolled back: the delete and the inserts are one transaction)
save_turn_queue(rto, room_name, tq, ok) ==
    LET room == get_room_by_name(room_name)
    IN  IF room = NoRoom \/ ~ok THEN rto
        ELSE [rto EXCEPT ![room.name] = tq]

\* the tail taken for the head
get_current_turn_last(tq) == IF tq # <<>> THEN tq[Len(tq)] ELSE None

get_current_turn(tq) == IF tq # <<>> THEN tq[1] ELSE None

InSeq(x, s) == \E k \in 1..Len(s) : s[k] = x

\* add_user_to_turns without its membership test
add_user_to_turns_dup(tq, username) ==
    [tq |-> Append(tq, username), ret |-> TRUE, saved |-> TRUE]

\* [tq: the deque afterwards, ret: the return value, saved: save_turn_queue was called]
add_user_to_turns(tq, username) ==
    IF ~InSeq(username, tq)
    THEN [tq |-> Append(tq, username), ret |-> TRUE, saved |-> TRUE]
    ELSE [tq |-> tq, ret |-> FALSE, saved |-> FALSE]

\* advance_turn that pops the head and does not append it again
advance_turn_drop(tq) ==
    IF tq = <<>>
    THEN [tq |-> tq, ret |-> None, saved |-> FALSE]
    ELSE [tq |-> Tail(tq), ret |-> get_current_turn(Tail(tq)), saved |-> TRUE]

\* advance_turn that saves and returns the head without rotating
advance_turn_stay(tq) ==
    [tq |-> tq, ret |-> get_current_turn(tq), saved |-> tq # <<>>]

\* advance_turn that trades the places of the first two and leaves the rest
advance_turn_swap(tq) ==
    IF Len(tq) < 2
    THEN [tq |-> tq, ret |-> get_current_turn(tq), saved |-> tq # <<>>]
    ELSE [tq |-> <<tq[2], tq[1]>> \o SubSeq(tq, 3, Len(tq)), ret |-> tq[2], saved |-> TRUE]

advance_turn(tq) ==
    IF tq = <<>>
    THEN [tq |-> tq, ret |-> None, saved |-> FALSE]
    ELSE LET t == Append(Tail(tq), Head(tq))
         IN  [tq |-> t, ret |-> t[1], saved |-> TRUE]

\* remove_user_from_turns that pops the head, whoever it is
remove_user_from_turns_head(tq, username) ==
    IF InSeq(username, tq)
    THEN [tq |-> Tail(tq), saved |-> TRUE]
    ELSE [tq |-> tq, saved |-> FALSE]

\* deque.remove: the first occurrence
remove_user_from_turns(tq, username) ==
    IF InSeq(username, tq)
    THEN LET k == CHOOSE i \in 1..Len(tq) : tq[i] = username /\ \A j \in 1..(i - 1) : tq[j] # username
         IN  [tq |-> SubSeq(tq, 1, k - 1) \o SubSeq(tq, k + 1, Len(tq)), saved |-> TRUE]
    ELSE [tq |-> tq, saved |-> FALSE]

\* the turn check without its comparison with the head: nobody is refused
TurnViolation_never(is_mod, current_turn, username) == FALSE

\* the turn check without "current_turn is not None": an empty registry refuses too
TurnViolation_strict(is_mod, current_turn, username) ==
    ~is_mod /\ username # current_turn

\* handle_add_video_socket's turn check: the add is refused
TurnViolation(is_mod, current_turn, username) ==
    ~is_mod /\ current_turn # None /\ username # current_turn

\* the deque get_turn_queue(room_name) returns
TurnQueueOf(rtq, room_name) == get_turn_queue(rtq, room_name)[room_name]

\* an emitted event: its name, its addressee (a room name or a sid) and its payload
Emit(name, to, current_turn, turn_queue, video_queue, current_video) ==
    [name |-> name, to |-> to, current_turn |-> current_turn, turn_queue |-> turn_queue,
     video_queue |-> video_queue, current_video |-> current_video, time |-> 0]

\* broadcast_turn_update that leaves current_turn out of the payload
broadcast_turn_update_nohead(room_name, tq) ==
    Emit("turn_update", room_name, None, tq, <<>>, <<>>)

broadcast_turn_update(room_name, tq) ==
    Emit("turn_update", room_name, get_current_turn(tq), tq, <<>>, <<>>)

\* ---------------------------------------------------------- room clock
\* started_at is None
NotStarted == -1
\* _pos(room)
positionNow(clock, room, t) ==
    IF room \notin DOMAIN clock THEN 0
    ELSE IF clock[room].started_at = NotStarted THEN clock[room].base
    ELSE clock[room].base + (t - clock[room].started_at)

ClockStart(video_id, t) == [video_id |-> video_id, base |-> 0, started_at |-> t]
ClockPause == [video_id |-> <<>>, base |-> 0, started_at |-> NotStarted]

SetKey(f, k, v) == IF k \in DOMAIN f THEN [f EXCEPT ![k] = v] ELSE f @@ (k :> v)
DelKey(f, k) == [x \in DOMAIN f \ {k} |-> f[x]]
Empty == [x \in {} |-> 0]

\* ------------------------------------------------------------- history
NoEv == [op |-> "init", sid |-> 0, user |-> None, room |-> None, name |-> None,
         vid |-> <<>>, id |-> 0, ok |-> FALSE, mod |-> FALSE, ret |-> None,
         saved |-> FALSE, dbok |-> TRUE, itemok |-> TRUE,
         tq0 |-> <<>>, q0 |-> <<>>, tqc |-> <<>>,
         rtq0 |-> Empty, items0 |-> {}, clock0 |-> Empty, rto0 |-> Empty,
         user_rooms0 |-> Empty]

\* the record of one handler run: who ran what on which room, and the state before it
\* (tq0, q0: the room's turn queue and ordered playback queue as the handler found them;
\* saved: the handler called save_turn_queue; dbok, itemok: the commits of the turn mirror
\* and of the new queue row succeed; tqc: the turn queue the turn check of an add read)
Ev(op, sid, user, room, name, vid, id, ok, mod) ==
    [op |-> op, sid |-> sid, user |-> user, room |-> room, name |-> name,
     vid |-> vid, id |-> id, ok |-> ok, mod |-> mod, ret |-> None,
     saved |-> FALSE, dbok |-> TRUE, itemok |-> TRUE,
     tq0 |-> TurnQueueOf(room_turn_queues, room), q0 |-> get_queue_for_room(QueueItem, room),
     tqc |-> TurnQueueOf(room_turn_queues, room),
     rtq0 |-> room_turn_queues, items0 |-> QueueItem, clock0 |-> room_clock,
     rto0 |-> RoomTurnOrder, user_rooms0 |-> user_rooms]

Live(sid) == conns[sid].live
get_display_name(sid) == conns[sid].user
get_user_room(sid) == IF sid \in DOMAIN user_rooms THEN user_rooms[sid] ELSE MAIN_ROOM_NAME
SessionRoom(sid) ==
    IF conns[sid].current_room # None THEN conns[sid].current_room ELSE MAIN_ROOM_NAME

\* ---------------------------------------------------------------- Init
Init ==
    /\ Room = {[name |-> MAIN_ROOM_NAME, created_by |-> None]}
    /\ RoomTurnOrder = [r \in RoomNames |-> <<>>]
    /\ QueueItem = {}
    /\ id_seq = 0
    /\ room_turn_queues = Empty
    /\ room_clock = Empty
    /\ user_rooms = Empty
    /\ conns = [s \in Sids |-> [live |-> FALSE, user |-> None, username |-> None, current_room |-> None]]
    /\ now = 0
    /\ out = <<>>
    /\ ev = NoEv
    /\ pending = Empty
    /\ waited = [u \in Users |-> 0]
    /\ reports = [s \in Sids |-> [item |-> 0, sent |-> FALSE]]

\* ------------------------------------------------------------- handlers
\* @socketio.on('connect'); cur and sess are session['current_room'] and
\* session['username'] as the pages left them
on_connect(sid, user, cur, sess, dbok) ==
    /\ ~Live(sid)
    /\ LET room_name == IF cur # None THEN cur ELSE MAIN_ROOM_NAME
           rtq == get_turn_queue(room_turn_queues, room_name)
           r == add_user_to_turns(rtq[room_name], user)
       IN  /\ user_rooms' = SetKey(user_rooms, sid, room_name)
           /\ conns' = [conns EXCEPT ![sid] = [live |-> TRUE, user |-> user,
                                                   username |-> sess, current_room |-> cur]]
           /\ room_turn_queues' = [rtq EXCEPT ![room_name] = r.tq]
           /\ RoomTurnOrder' = IF r.saved
                               THEN save_turn_queue(RoomTurnOrder, room_name, r.tq, dbok)
                               ELSE RoomTurnOrder
           /\ out' = <<Emit("room_joined", sid, get_current_turn(r.tq), r.tq, <<>>, <<>>)>>
                     \o (IF r.ret THEN <<broadcast_turn_update(room_name, r.tq)>> ELSE <<>>)
           /\ ev' = [Ev("connect", sid, user, room_name, user, <<>>, 0, r.ret, FALSE)
                     EXCEPT !.saved = r.saved, !.dbok = dbok]
    /\ UNCHANGED <<Room, QueueItem, id_seq, room_clock, now, pending>>

\* @socketio.on('join_room'); room_arg, user_arg: data['room'], data['username'] (None: not given)
handle_join(sid, room_arg, user_arg, dbok) ==
    /\ Live(sid)
    /\ LET room_name == IF room_arg # None THEN room_arg ELSE MAIN_ROOM_NAME
           username == IF user_arg # None THEN user_arg ELSE get_display_name(sid)
           rtq == get_turn_queue(room_turn_queues, room_name)
           r == add_user_to_turns(rtq[room_name], username)
           queue_items == get_queue_for_room(QueueItem, room_name)
           current_video_id == IF queue_items # <<>>
                               THEN extract_video_id(queue_items[1].video_url) ELSE <<>>
       IN  /\ user_rooms' = SetKey(user_rooms, sid, room_name)
           /\ conns' = [conns EXCEPT ![sid].current_room = room_name]
           /\ room_turn_queues' = [rtq EXCEPT ![room_name] = r.tq]
           /\ RoomTurnOrder' = IF r.saved
                               THEN save_turn_queue(RoomTurnOrder, room_name, r.tq, dbok)
                               ELSE RoomTurnOrder
           /\ out' = << Emit("chat_history", sid, None, <<>>, <<>>, <<>>),
                        Emit("sync_video", sid, None, <<>>,
                             convert_queue_to_old_format(queue_items), current_video_id),
                        Emit("room_joined", sid, get_current_turn(r.tq), r.tq, <<>>, <<>>),
                        Emit("new_message", room_name, None, <<>>, <<>>, <<>>),
                        Emit("user_joined", room_name, get_current_turn(r.tq), r.tq, <<>>, <<>>) >>
                     \o (IF r.ret THEN <<broadcast_turn_update(room_name, r.tq)>> ELSE <<>>)
           /\ ev' = [Ev("join", sid, get_display_name(sid), room_name, username, <<>>, 0, r.ret, FALSE)
                     EXCEPT !.saved = r.saved, !.dbok = dbok]
    /\ UNCHANGED <<Room, QueueItem, id_seq, room_clock, now, pending>>

\* @socketio.on('disconnect')
handle_disconnect(sid, dbok) ==
    /\ Live(sid)
    /\ sid \in DOMAIN user_rooms
    /\ LET room_name == user_rooms[sid]
           username == IF conns[sid].username # None THEN conns[sid].username
                       ELSE get_display_name(sid)
           rtq == get_turn_queue(room_turn_queues, room_name)
           r == remove_user_from_turns(rtq[room_name], username)
       IN  /\ room_turn_queues' = [rtq EXCEPT ![room_name] = r.tq]
           /\ RoomTurnOrder' = IF r.saved
                               THEN save_turn_queue(RoomTurnOrder, room_name, r.tq, dbok)
                               ELSE RoomTurnOrder
           /\ out' = << Emit("new_message", room_name, None, <<>>, <<>>, <<>>),
                        broadcast_turn_update(room_name, r.tq) >>
           /\ user_rooms' = DelKey(user_rooms, sid)
           /\ conns' = [conns EXCEPT ![sid] = [live |-> FALSE, user |-> None, username |-> None, current_room |-> None]]
           /\ ev' = [Ev("disconnect", sid, get_display_name(sid), room_name, username, <<>>, 0,
                        r.saved, FALSE)
                     EXCEPT !.saved = r.saved, !.dbok = dbok]
    /\ UNCHANGED <<Room, QueueItem, id_seq, room_clock, now, pending>>

\* an id taken from the number of rows
NewIds_count == {Cardinality(QueueItem) + 1}

\* ids the store may give a new row: one past the largest live id (SQLite rowid) or one
\* past the largest id ever given (a sequence)
NewIds == {Max({0} \cup {i.id : i \in QueueItem}) + 1, id_seq + 1}

\* room_clock after the handlers' "restart for the head, or pause" (skip_song, video_ended)
RestartClock(clock, room_name, queue_items, t) ==
    IF queue_items # <<>>
    THEN SetKey(clock, room_name, ClockStart(extract_video_id(queue_items[1].video_url), t))
    ELSE SetKey(clock, room_name, ClockPause)

\* the commit of the new row never raises into the except branch
AddAborts_never(itemok) == FALSE

\* db.session.commit() of the new row raises: the except branch rolls back and returns
AddAborts(itemok) == ~itemok

\* @socketio.on('add_video'); video_id = <<>>: title or video_id missing;
\* itemok, turnok: the commits of the new row and of the turn mirror succeed
handle_add_video_socket(sid, video_id, id, itemok, turnok) ==
    /\ Live(sid)
    /\ get_display_name(sid) \in Users
    /\ LET room_name == SessionRoom(sid)
           room == get_room_by_name(room_name)
           username == get_display_name(sid)
           is_mod == user_can_moderate(username, room_name)
           rtq == get_turn_queue(room_turn_queues, room_name)
           current_turn == get_current_turn(rtq[room_name])
           qi == [id |-> id, room_id |-> room.name,
                  video_url |-> WATCH_PREFIX \o video_id, added_by |-> username]
           items == QueueItem \cup {qi}
           a == advance_turn(rtq[room_name])
       IN  IF video_id = <<>> \/ room = NoRoom
           THEN /\ out' = <<>>
                /\ ev' = Ev("add_video", sid, username, room_name, "ignored", video_id, 0, FALSE, is_mod)
                /\ UNCHANGED <<QueueItem, id_seq, room_clock, room_turn_queues, RoomTurnOrder>>
           ELSE IF TurnViolation(is_mod, current_turn, username)
           THEN /\ out' = <<Emit("turn_error", sid, current_turn, <<>>, <<>>, <<>>)>>
                /\ room_turn_queues' = rtq
                /\ ev' = Ev("add_video", sid, username, room_name, "rejected", video_id, 0, FALSE, is_mod)
                /\ UNCHANGED <<QueueItem, id_seq, room_clock, RoomTurnOrder>>
           ELSE IF AddAborts(itemok)
           THEN /\ out' = <<>>
                /\ room_turn_queues' = rtq
                /\ ev' = [Ev("add_video", sid, username, room_name, "failed", video_id, 0, FALSE, is_mod)
                          EXCEPT !.itemok = itemok]
                /\ UNCHANGED <<QueueItem, id_seq, room_clock, RoomTurnOrder>>
           ELSE /\ QueueItem' = items
                /\ id_seq' = IF id > id_seq THEN id ELSE id_seq
                /\ room_clock' = IF Cardinality(ItemsOf(items, room)) = 1
                                 THEN SetKey(room_clock, room_name, ClockStart(video_id, now))
                                 ELSE room_clock
                /\ room_turn_queues' = [rtq EXCEPT ![room_name] = a.tq]
                /\ RoomTurnOrder' = IF a.saved
                                    THEN save_turn_queue(RoomTurnOrder, room_name, a.tq, turnok)
                                    ELSE RoomTurnOrder
                /\ out' = << Emit("video_added", room_name, None, <<>>,
                                  convert_queue_to_old_format(get_queue_for_room(items, room_name)), <<>>),
                             broadcast_turn_update(room_name, a.tq) >>
                /\ ev' = [Ev("add_video", sid, username, room_name, "admitted", video_id, id, TRUE, is_mod)
                          EXCEPT !.ret = a.ret, !.saved = a.saved, !.dbok = turnok, !.itemok = itemok]
    /\ UNCHANGED <<Room, user_rooms, conns, now, pending>>

\* the locals an add_video handler holds between its steps
\* (pc: "commit" before db.session.commit() of the new row, "count" after it)
AddLocals(room_name, video_id, username, is_mod, tqc, q0) ==
    [pc |-> "commit", room_name |-> room_name, video_id |-> video_id, username |-> username,
     is_mod |-> is_mod, tqc |-> tqc, q0 |-> q0, id |-> 0]

\* add_video up to its first write (lines 521-541): the checks and the turn check; the
\* handler then waits for the database, and gevent may run other handlers meanwhile
add_video_check(sid, video_id) ==
    /\ Live(sid)
    /\ get_display_name(sid) \in Users
    /\ sid \notin DOMAIN pending
    /\ LET room_name == SessionRoom(sid)
           room == get_room_by_name(room_name)
           username == get_display_name(sid)
           is_mod == user_can_moderate(username, room_name)
           rtq == get_turn_queue(room_turn_queues, room_name)
           current_turn == get_current_turn(rtq[room_name])
       IN  IF video_id = <<>> \/ room = NoRoom
           THEN /\ out' = <<>>
                /\ ev' = Ev("add_video", sid, username, room_name, "ignored", video_id, 0, FALSE, is_mod)
                /\ UNCHANGED <<room_turn_queues, pending>>
           ELSE IF TurnViolation(is_mod, current_turn, username)
           THEN /\ out' = <<Emit("turn_error", sid, current_turn, <<>>, <<>>, <<>>)>>
                /\ room_turn_queues' = rtq
                /\ ev' = Ev("add_video", sid, username, room_name, "rejected", video_id, 0, FALSE, is_mod)
                /\ UNCHANGED pending
           ELSE /\ out' = <<>>
                /\ room_turn_queues' = rtq
                /\ pending' = SetKey(pending, sid,
                                     AddLocals(room_name, video_id, username, is_mod, rtq[room_name],
                                               get_queue_for_room(QueueItem, room_name)))
                /\ ev' = Ev("add_video", sid, username, room_name, "checked", video_id, 0, FALSE, is_mod)
    /\ UNCHANGED <<Room, RoomTurnOrder, QueueItem, id_seq, room_clock, user_rooms, conns, now>>

\* add_video's db.session.add(qi); db.session.commit() (lines 543-545)
add_video_commit(sid, id, itemok) ==
    /\ sid \in DOMAIN pending
    /\ pending[sid].pc = "commit"
    /\ LET p == pending[sid]
           room == get_room_by_name(p.room_name)
           qi == [id |-> id, room_id |-> room.name,
                  video_url |-> WATCH_PREFIX \o p.video_id, added_by |-> p.username]
       IN  IF AddAborts(itemok)
           THEN /\ pending' = DelKey(pending, sid)
                /\ ev' = [Ev("add_video", sid, p.username, p.room_name, "failed", p.video_id, 0,
                              FALSE, p.is_mod)
                          EXCEPT !.itemok = itemok, !.tqc = p.tqc, !.q0 = p.q0]
                /\ UNCHANGED <<QueueItem, id_seq>>
           ELSE /\ QueueItem' = QueueItem \cup {qi}
                /\ id_seq' = IF id > id_seq THEN id ELSE id_seq
                /\ pending' = [pending EXCEPT ![sid].pc = "count", ![sid].id = id]
                /\ ev' = [Ev("add_video", sid, p.username, p.room_name, "committed", p.video_id, id,
                              FALSE, p.is_mod)
                          EXCEPT !.tqc = p.tqc, !.q0 = p.q0]
    /\ out' = <<>>
    /\ UNCHANGED <<Room, RoomTurnOrder, room_turn_queues, room_clock, user_rooms, conns, now>>

\* add_video after the commit (lines 547-555): the count, the clock, the queue snapshot,
\* advance_turn and the turn update
add_video_finish(sid, turnok) ==
    /\ sid \in DOMAIN pending
    /\ pending[sid].pc = "count"
    /\ LET p == pending[sid]
           room == get_room_by_name(p.room_name)
           rtq == get_turn_queue(room_turn_queues, p.room_name)
           a == advance_turn(rtq[p.room_name])
       IN  /\ room_clock' = IF Cardinality(ItemsOf(QueueItem, room)) = 1
                             THEN SetKey(room_clock, p.room_name, ClockStart(p.video_id, now))
                             ELSE room_clock
           /\ room_turn_queues' = [rtq EXCEPT ![p.room_name] = a.tq]
           /\ RoomTurnOrder' = IF a.saved
                               THEN save_turn_queue(RoomTurnOrder, p.room_name, a.tq, turnok)
                               ELSE RoomTurnOrder
           /\ out' = << Emit("video_added", p.room_name, None, <<>>,
                             convert_queue_to_old_format(get_queue_for_room(QueueItem, p.room_name)),
                             <<>>),
                        broadcast_turn_update(p.room_name, a.tq) >>
           /\ pending' = DelKey(pending, sid)
           /\ ev' = [Ev("add_video", sid, p.username, p.room_name, "admitted", p.video_id, p.id,
                         TRUE, p.is_mod)
                     EXCEPT !.ret = a.ret, !.saved = a.saved, !.dbok = turnok,
                            !.tqc = p.tqc, !.q0 = p.q0]
    /\ UNCHANGED <<Room, QueueItem, id_seq, user_rooms, conns, now>>

\* @socketio.on('skip_song')
handle_skip_song(sid) ==
    /\ Live(sid)
    /\ get_display_name(sid) \in Users
    /\ LET room_name == get_user_room(sid)
           username == get_display_name(sid)
           is_mod == user_can_moderate(username, room_name)
           items == skip_current_video(QueueItem, room_name)
           queue_items == get_queue_for_room(items, room_name)
       IN  IF ~is_mod
           THEN /\ out' = <<>>
                /\ ev' = Ev("skip_song", sid, username, room_name, "denied", <<>>, 0, FALSE, is_mod)
                /\ UNCHANGED <<QueueItem, room_clock>>
           ELSE /\ QueueItem' = items
                /\ room_clock' = RestartClock(room_clock, room_name, queue_items, now)
                /\ out' = << Emit("video_added", room_name, None, <<>>,
                                  convert_queue_to_old_format(queue_items), <<>>),
                             Emit("skip_video", room_name, None, <<>>, <<>>, <<>>) >>
                /\ ev' = Ev("skip_song", sid, username, room_name, "done", <<>>, 0, TRUE, is_mod)
    /\ UNCHANGED <<Room, RoomTurnOrder, id_seq, room_turn_queues, user_rooms, conns, now, pending>>

\* @socketio.on('video_ended')
handle_video_ended(sid) ==
    /\ Live(sid)
    /\ LET room_name == get_user_room(sid)
           items == skip_current_video(QueueItem, room_name)
           queue_items == get_queue_for_room(items, room_name)
           current_video_id == IF queue_items # <<>>
                               THEN extract_video_id(queue_items[1].video_url) ELSE <<>>
       IN  /\ QueueItem' = items
           /\ room_clock' = RestartClock(room_clock, room_name, queue_items, now)
           /\ out' = << Emit("video_ended", room_name, None, <<>>, <<>>, <<>>),
                        Emit("sync_video", room_name, None, <<>>,
                             convert_queue_to_old_format(queue_items), current_video_id) >>
           /\ ev' = Ev("video_ended", sid, get_display_name(sid), room_name, "done", <<>>, 0, TRUE, FALSE)
    /\ UNCHANGED <<Room, RoomTurnOrder, id_seq, room_turn_queues, user_rooms, conns, now, pending>>

\* @socketio.on('request_sync')
handle_request_sync(sid) ==
    /\ Live(sid)
    /\ LET room_name == get_user_room(sid)
           queue_items == get_queue_for_room(QueueItem, room_name)
           head_id == IF queue_items # <<>>
                      THEN extract_video_id(queue_items[1].video_url) ELSE <<>>
           clock == IF head_id # <<>> /\ (room_name \notin DOMAIN room_clock
                                          \/ room_clock[room_name].video_id # head_id)
                    THEN SetKey(room_clock, room_name, ClockStart(head_id, now))
                    ELSE IF head_id = <<>>
                    THEN SetKey(room_clock, room_name, ClockPause)
                    ELSE room_clock
       IN  /\ room_clock' = clock
           /\ out' = <<[Emit("sync", sid, None, <<>>, <<>>, head_id)
                        EXCEPT !.time = positionNow(clock, room_name, now)]>>
           /\ ev' = Ev("request_sync", sid, get_display_name(sid), room_name, "done", <<>>, 0, TRUE, FALSE)
    /\ UNCHANGED <<Room, RoomTurnOrder, QueueItem, id_seq, room_turn_queues, user_rooms, conns, now, pending>>

\* @socketio.on('clear_queue')
handle_clear_queue(sid) ==
    /\ Live(sid)
    /\ get_display_name(sid) \in Users
    /\ LET room_name == get_user_room(sid)
           username == get_display_name(sid)
           is_mod == user_can_moderate(username, room_name)
           room == get_room_by_name(room_name)
       IN  IF ~is_mod
           THEN /\ out' = <<>>
                /\ ev' = Ev("clear_queue", sid, username, room_name, "denied", <<>>, 0, FALSE, is_mod)
                /\ UNCHANGED QueueItem
           ELSE /\ QueueItem' = IF room # NoRoom THEN QueueItem \ ItemsOf(QueueItem, room)
                                ELSE QueueItem
                /\ out' = <<Emit("clear_queue", room_name, None, <<>>, <<>>, <<>>)>>
                /\ ev' = Ev("clear_queue", sid, username, room_name, "done", <<>>, 0, TRUE, is_mod)
    /\ UNCHANGED <<Room, RoomTurnOrder, id_seq, room_turn_queues, room_clock, user_rooms, conns, now, pending>>

\* remove_video that lets anybody remove any item
RemoveDenied_never(added_by, user, is_mod) == FALSE

\* remove_video's permission test: 403
RemoveDenied(added_by, user, is_mod) == added_by # user /\ ~is_mod

\* DELETE /remove_video/<video_id>, by a logged-in user
remove_video(user, video) ==
    /\ user \in Users
    /\ video \in QueueItem
    /\ LET room_name == video.room_id
           is_mod == user_can_moderate(user, room_name)
           items == QueueItem \ {video}
       IN  IF RemoveDenied(video.added_by, user, is_mod)
           THEN /\ out' = <<>>
                /\ ev' = Ev("remove_video", 0, user, room_name, "denied", <<>>, video.id, FALSE, is_mod)
                /\ UNCHANGED QueueItem
           ELSE /\ QueueItem' = items
                /\ out' = <<Emit("video_added", room_name, None, <<>>,
                                 convert_queue_to_old_format(get_queue_for_room(items, room_name)), <<>>)>>
                /\ ev' = Ev("remove_video", 0, user, room_name, "done", <<>>, video.id, TRUE, is_mod)
    /\ UNCHANGED <<Room, RoomTurnOrder, id_seq, room_turn_queues, room_clock, user_rooms, conns, now, pending>>

\* POST /create_room, for the room name JAM
create_room(user) ==
    /\ user \in Users
    /\ ~\E r \in Room : r.name = JAM
    /\ Room' = Room \cup {[name |-> JAM, created_by |-> user]}
    /\ out' = <<>>
    /\ ev' = Ev("create_room", 0, user, JAM, "done", <<>>, 0, TRUE, FALSE)
    /\ UNCHANGED <<RoomTurnOrder, QueueItem, id_seq, room_turn_queues, room_clock,
                   user_rooms, conns, now, pending>>

\* the process restarts: the module-level dicts start empty, the tables are kept
Restart ==
    /\ room_turn_queues' = Empty
    /\ room_clock' = Empty
    /\ user_rooms' = Empty
    /\ conns' = [s \in Sids |-> [live |-> FALSE, user |-> None, username |-> None, current_room |-> None]]
    /\ out' = <<>>
    /\ pending' = Empty
    /\ ev' = [NoEv EXCEPT !.op = "restart"]
    /\ UNCHANGED <<Room, RoomTurnOrder, QueueItem, id_seq, now>>

\* time() advances
Tick ==
    /\ now < MaxTime
    /\ now' = now + 1
    /\ out' = <<>>
    /\ ev' = [NoEv EXCEPT !.op = "tick"]
    /\ UNCHANGED <<Room, RoomTurnOrder, QueueItem, id_seq, room_turn_queues, room_clock,
                   user_rooms, conns, pending>>

\* session['current_room'] when a socket connects: unset, or a room whose page was opened
PageRooms == {None} \cup {r.name : r \in Room}

\* session['username'] when account user connects: login() stores the account's name,
\* logout() pops it, and register() logs the new account in without touching it, so a
\* browser that registers while logged in keeps the earlier account's name
SessionNames(user) == {None} \cup Users

\* the accounts that open connections in the base scenario
ConnUsers == {"Blake", "A"}

\* the turn registry under connect, join, disconnect and add, with skip and end of
\* playback draining the playback queue; every commit succeeds
Next ==
    \/ \E sid \in Sids, user \in ConnUsers, cur \in PageRooms : on_connect(sid, user, cur, user, TRUE) /\ UNCHANGED <<waited, reports>>
    \/ \E sid \in Sids, room_arg \in {None, MAIN_ROOM_NAME}, user_arg \in {None} \cup SuppliedNames :
          handle_join(sid, room_arg, user_arg, TRUE) /\ UNCHANGED <<waited, reports>>
    \/ \E sid \in Sids : handle_disconnect(sid, TRUE) /\ UNCHANGED <<waited, reports>>
    \/ \E sid \in Sids, video_id \in VideoIds, id \in NewIds :
          id_seq < MaxItems /\ handle_add_video_socket(sid, video_id, id, TRUE, TRUE) /\ UNCHANGED <<waited, reports>>
    \/ \E sid \in Sids : handle_skip_song(sid) /\ UNCHANGED <<waited, reports>>
    \/ \E sid \in Sids : handle_video_ended(sid) /\ UNCHANGED <<waited, reports>>
    \/ Restart /\ UNCHANGED <<waited, reports>>

Spec == Init /\ [][Next]_vars

\* connecting, joining and leaving, with every session['username'] the pages can leave
NextLeave ==
    \/ \E sid \in Sids, user \in ConnUsers : \E sess \in SessionNames(user) :
          on_connect(sid, user, None, sess, TRUE) /\ UNCHANGED <<waited, reports>>
    \/ \E sid \in Sids, user_arg \in {None} \cup SuppliedNames :
          handle_join(sid, None, user_arg, TRUE) /\ UNCHANGED <<waited, reports>>
    \/ \E sid \in Sids : handle_disconnect(sid, TRUE) /\ UNCHANGED <<waited, reports>>
    \/ Restart /\ UNCHANGED <<waited, reports>>

SpecLeave == Init /\ [][NextLeave]_vars

\* who opens which connection where the playback queue is studied: a moderator and a
\* plain participant
QueueLogins == (1 :> "Blake") @@ (2 :> "A")

\* the playback queue and the clock under add, skip, end of playback, clear, removal and
\* sync requests, with time passing; every commit succeeds
NextQueue ==
    \/ \E sid \in Sids : on_connect(sid, QueueLogins[sid], None, None, TRUE) /\ UNCHANGED <<waited, reports>>
    \/ \E sid \in Sids, video_id \in QueueVideoIds, id \in NewIds :
          id_seq < MaxQueueItems /\ handle_add_video_socket(sid, video_id, id, TRUE, TRUE) /\ UNCHANGED <<waited, reports>>
    \/ \E sid \in Sids : handle_skip_song(sid) /\ UNCHANGED <<waited, reports>>
    \/ \E sid \in Sids : handle_video_ended(sid) /\ UNCHANGED <<waited, reports>>
    \/ \E sid \in Sids : handle_request_sync(sid) /\ UNCHANGED <<waited, reports>>
    \/ \E sid \in Sids : handle_clear_queue(sid) /\ UNCHANGED <<waited, reports>>
    \/ \E user \in ConnUsers, video \in QueueItem : remove_video(user, video) /\ UNCHANGED <<waited, reports>>
    \/ Tick /\ UNCHANGED <<waited, reports>>

SpecQueue == Init /\ [][NextQueue]_vars

\* the turn registry and its mirror when commits may fail: connect, join (also under a
\* room name that has no row), disconnect, add and restart
NextFail ==
    \/ \E sid \in Sids, dbok \in BOOLEAN : on_connect(sid, QueueLogins[sid], None, None, dbok) /\ UNCHANGED <<waited, reports>>
    \/ \E sid \in Sids : handle_join(sid, JAM, None, TRUE) /\ UNCHANGED <<waited, reports>>
    \/ \E sid \in Sids, dbok \in BOOLEAN : handle_disconnect(sid, dbok) /\ UNCHANGED <<waited, reports>>
    \/ \E sid \in Sids, video_id \in VideoIds, id \in NewIds, itemok \in BOOLEAN, turnok \in BOOLEAN :
          id_seq < MaxItems /\ handle_add_video_socket(sid, video_id, id, itemok, turnok) /\ UNCHANGED <<waited, reports>>
    \/ Restart /\ UNCHANGED <<waited, reports>>

SpecFail == Init /\ [][NextFail]_vars

\* the ids clients send where add_video handlers overlap: a plain id, and one that carries
\* a query parameter
RaceVideoIds == {<<"x">>, <<"x", "&", "t">>}

\* add_video run step by step (gevent switches greenlets while a handler waits for the
\* database), next to connects, ends of playback and the passing of time
NextRace ==
    \/ \E sid \in Sids : on_connect(sid, QueueLogins[sid], None, None, TRUE) /\ UNCHANGED <<waited, reports>>
    \/ \E sid \in Sids, video_id \in RaceVideoIds : add_video_check(sid, video_id) /\ UNCHANGED <<waited, reports>>
    \/ \E sid \in Sids, id \in NewIds :
          id_seq < MaxItems /\ add_video_commit(sid, id, TRUE) /\ UNCHANGED <<waited, reports>>
    \/ \E sid \in Sids : add_video_finish(sid, TRUE) /\ UNCHANGED <<waited, reports>>
    \/ \E sid \in Sids : handle_video_ended(sid) /\ UNCHANGED <<waited, reports>>
    \/ Tick /\ UNCHANGED <<waited, reports>>

SpecRace == Init /\ [][NextRace]_vars

\* waited after a handler ran: an admitted add in the Main Room counts for every member
\* but the new head; a connect, join or disconnect starts the count again
CountWaits ==
    LET tq == TurnQueueOf(room_turn_queues', MAIN_ROOM_NAME)
    IN  waited' =
          IF ev'.op = "add_video" /\ ev'.name = "admitted"
          THEN [u \in Users |-> IF InSeq(u, tq) /\ get_current_turn(tq) # u
                                THEN waited[u] + 1 ELSE 0]
          ELSE IF ev'.op \in {"connect", "join", "disconnect"}
          THEN [u \in Users |-> 0]
          ELSE waited

\* the rotation of the Main Room registry: a moderator and a participant connect, a third
\* name joins, sessions leave, and adds are admitted or turned away
NextTurns ==
    \/ \E sid \in Sids : on_connect(sid, QueueLogins[sid], None, None, TRUE) /\ CountWaits /\ UNCHANGED reports
    \/ \E sid \in Sids, user_arg \in SuppliedNames : handle_join(sid, None, user_arg, TRUE) /\ CountWaits /\ UNCHANGED reports
    \/ \E sid \in Sids : handle_disconnect(sid, TRUE) /\ CountWaits /\ UNCHANGED reports
    \/ \E sid \in Sids, id \in NewIds :
          id_seq < MaxItems /\ handle_add_video_socket(sid, <<"x">>, id, TRUE, TRUE) /\ CountWaits /\ UNCHANGED reports

SpecTurns == Init /\ [][NextTurns]_vars

\* the ids clients send where sync requests are studied: a plain id, one that carries a
\* query parameter, and one that starts with the separator extract_video_id splits at
SyncVideoIds == {<<"x">>, <<"x", "&", "t">>, <<"&", "x">>}

\* sync requests next to adds, ends of playback, removals and the passing of time
NextSync ==
    \/ \E sid \in Sids : on_connect(sid, QueueLogins[sid], None, None, TRUE) /\ UNCHANGED <<waited, reports>>
    \/ \E sid \in Sids, video_id \in SyncVideoIds, id \in NewIds :
          id_seq < MaxItems /\ handle_add_video_socket(sid, video_id, id, TRUE, TRUE) /\ UNCHANGED <<waited, reports>>
    \/ \E sid \in Sids : handle_video_ended(sid) /\ UNCHANGED <<waited, reports>>
    \/ \E sid \in Sids : handle_request_sync(sid) /\ UNCHANGED <<waited, reports>>
    \/ \E user \in ConnUsers, video \in QueueItem : remove_video(user, video) /\ UNCHANGED <<waited, reports>>
    \/ Tick /\ UNCHANGED <<waited, reports>>

SpecSync == Init /\ [][NextSync]_vars

\* a spelling of the main room's name that differs in case only, as a client may pass it
\* to join_room
MAIN_ROOM_LOWER == "main room"

\* items ever added while several rooms are in play
MaxRoomItems == 1

\* the sessions that move between rooms
Movers == {2}

\* every room name in play
JoinNames == RoomNames \cup {MAIN_ROOM_LOWER}

\* several rooms side by side: the room JAM is created, sessions connect from the
\* main room's page, join under the other names (the mirror commit may fail), add, report
\* the end of playback, ask for a sync and leave
NextRooms ==
    \/ \E user \in Creators : create_room(user) /\ UNCHANGED <<waited, reports>>
    \/ \E sid \in Sids :
          on_connect(sid, QueueLogins[sid], MAIN_ROOM_NAME, None, TRUE) /\ UNCHANGED <<waited, reports>>
    \/ \E sid \in Movers, room_arg \in JoinNames \ {MAIN_ROOM_NAME}, dbok \in BOOLEAN :
          handle_join(sid, room_arg, None, dbok) /\ UNCHANGED <<waited, reports>>
    \/ \E sid \in Sids : handle_disconnect(sid, TRUE) /\ UNCHANGED <<waited, reports>>
    \/ \E sid \in Sids, id \in NewIds :
          id_seq < MaxRoomItems /\ handle_add_video_socket(sid, <<"x">>, id, TRUE, TRUE) /\ UNCHANGED <<waited, reports>>
    \/ \E sid \in Sids : handle_video_ended(sid) /\ UNCHANGED <<waited, reports>>
    \/ \E sid \in Sids : handle_request_sync(sid) /\ UNCHANGED <<waited, reports>>

SpecRooms == Init /\ [][NextRooms]_vars

\* the room names a session may pass to join_room while presence is followed
BindRooms == {None, JAM}

\* connections only: any identity on any connection, joins to either room under the
\* session's own or a supplied name, and disconnects
NextBind ==
    \/ \E sid \in Sids, user \in ConnUsers :
          on_connect(sid, user, None, None, TRUE) /\ UNCHANGED <<waited, reports>>
    \/ \E sid \in Sids, room_arg \in BindRooms, user_arg \in {None} \cup SuppliedNames :
          handle_join(sid, room_arg, user_arg, TRUE) /\ UNCHANGED <<waited, reports>>
    \/ \E sid \in Sids : handle_disconnect(sid, TRUE) /\ UNCHANGED <<waited, reports>>

SpecBind == Init /\ [][NextBind]_vars

\* the player of a session reaches the end of the room's active item and the client
\* sends video_ended; the event carries no item id
player_ended(sid) ==
    /\ Live(sid)
    /\ ~reports[sid].sent
    /\ get_queue_for_room(QueueItem, get_user_room(sid)) # <<>>
    /\ reports' = [reports EXCEPT ![sid] =
                      [item |-> get_queue_for_room(QueueItem, get_user_room(sid))[1].id,
                       sent |-> TRUE]]
    /\ out' = <<>>
    /\ ev' = [NoEv EXCEPT !.op = "player_ended"]
    /\ UNCHANGED <<Room, RoomTurnOrder, QueueItem, id_seq, room_turn_queues, room_clock,
                   user_rooms, conns, now, pending, waited>>

\* the server handles a video_ended that a client has sent
video_ended_arrives(sid) ==
    /\ reports[sid].sent
    /\ handle_video_ended(sid)
    /\ reports' = [reports EXCEPT ![sid].sent = FALSE]
    /\ UNCHANGED waited

\* a room of two sessions playing a queue of up to MaxQueueItems items to its end
NextEnded ==
    \/ \E sid \in Sids :
          on_connect(sid, QueueLogins[sid], None, None, TRUE) /\ UNCHANGED <<waited, reports>>
    \/ \E sid \in Sids, id \in NewIds :
          /\ id_seq < MaxQueueItems
          /\ handle_add_video_socket(sid, <<"x">>, id, TRUE, TRUE)
          /\ UNCHANGED <<waited, reports>>
    \/ \E sid \in Sids : player_ended(sid)
    \/ \E sid \in Sids : video_ended_arrives(sid)
    \/ Tick /\ UNCHANGED <<waited, reports>>

SpecEnded == Init /\ [][NextEnded]_vars

\* ---------------------------------------------------------------- claims
NoDup(q) == \A i, j \in 1..Len(q) : q[i] = q[j] => i = j

\* q is q0 with its head moved to the tail
Rotated(q0, q) ==
    /\ Len(q) = Len(q0)
    /\ \A k \in 1..(Len(q0) - 1) : q[k] = q0[k + 1]
    /\ Len(q0) > 0 => q[Len(q0)] = q0[1]

\* the turn queue of the room the last handler ran on
TurnNow == room_turn_queues[ev.room]

Admitted == ev.op = "add_video" /\ ev.name = "admitted"
Rejected == ev.op = "add_video" /\ ev.name = "rejected"

\* C1: no room's turn registry holds an identity twice; add_user_to_turns (run by connect
\* and join) returns False and leaves the registry as it was when the identity is present,
\* and appends it at the tail and returns True when it is absent.
C1_RegistryUnique ==
    /\ \A r \in DOMAIN room_turn_queues : NoDup(room_turn_queues[r])
    /\ ev.op \in {"connect", "join"} =>
          IF InSeq(ev.name, ev.tq0)
          THEN ~ev.ok /\ TurnNow = ev.tq0
          ELSE ev.ok /\ TurnNow = Append(ev.tq0, ev.name)

\* a join by an identity that already stands in a registry of two or more
C1_Witness ==
    /\ ev.op = "join" /\ ~ev.ok
    /\ Len(ev.tq0) >= 2 /\ InSeq(ev.name, ev.tq0)

\* C2: advance_turn (run by every admitted add) turns [x1, x2, ..., xn] into
\* [x2, ..., xn, x1] and returns x2 (x1 when n = 1), the length unchanged; on an empty
\* registry it returns None and changes nothing.
C2_AdvanceRotates ==
    Admitted =>
        IF ev.tq0 = <<>>
        THEN TurnNow = <<>> /\ ev.ret = None
        ELSE /\ Rotated(ev.tq0, TurnNow)
             /\ ev.ret = IF Len(ev.tq0) = 1 THEN ev.tq0[1] ELSE ev.tq0[2]

\* an admitted add on a registry of three
C2_Witness == Admitted /\ Len(ev.tq0) = 3

\* C3: an add admitted for a requester without moderation rights found the registry empty
\* or the requester at its head.
C3_AdmittedIsHead ==
    Admitted /\ ~ev.mod => ev.tq0 = <<>> \/ ev.tq0[1] = ev.user

\* a non-moderator, head of a registry of two or more, adds
C3_Witness == Admitted /\ ~ev.mod /\ Len(ev.tq0) >= 2 /\ ev.tq0[1] = ev.user

\* C4: an add by a non-moderator who is not the head of a non-empty registry is rejected,
\* and a rejected add leaves the playback queue, the turn registry, its mirror and the
\* clock as they were and emits one event only: a turn_error, to the requester, naming
\* the head.
C4_RejectedNoEffect ==
    /\ ( /\ ev.op = "add_video" /\ ev.vid # <<>> /\ get_room_by_name(ev.room) # NoRoom
         /\ ~ev.mod /\ ev.tq0 # <<>> /\ ev.tq0[1] # ev.user ) => Rejected
    /\ Rejected =>
          /\ QueueItem = ev.items0
          /\ TurnNow = ev.tq0
          /\ \A r \in DOMAIN ev.rtq0 : room_turn_queues[r] = ev.rtq0[r]
          /\ RoomTurnOrder = ev.rto0
          /\ room_clock = ev.clock0
          /\ Len(out) = 1
          /\ out[1].name = "turn_error" /\ out[1].to = ev.sid
          /\ out[1].current_turn = get_current_turn(ev.tq0)
          /\ ev.tq0 # <<>>

\* a non-moderator standing second in a registry of two is turned away
C4_Witness == Rejected /\ Len(ev.tq0) = 2 /\ ev.tq0[2] = ev.user

\* C5 as stated: after any admitted add the head differs from the adder unless the
\* registry has exactly one entry.
C5_Original ==
    Admitted /\ Len(TurnNow) # 1 => get_current_turn(TurnNow) # ev.user

\* C5 amended: after an admitted add the head differs from the adder unless the registry
\* has exactly one entry or the adder is a moderator who stood second in the registry
\* (the rotation then makes that moderator the head).
C5_HeadMovesOn ==
    Admitted /\ Len(TurnNow) # 1 /\ ~(ev.mod /\ Len(ev.tq0) >= 2 /\ ev.tq0[2] = ev.user)
        => get_current_turn(TurnNow) # ev.user

\* the head of a registry of two or more adds and is no longer head
C5_Witness ==
    /\ Admitted /\ Len(ev.tq0) >= 2 /\ ev.tq0[1] = ev.user
    /\ get_current_turn(TurnNow) # ev.user

\* C6: when the head of [A, B, ...] adds an item, the add is admitted, the item is
\* created, the registry is rotated by one, and the handler emits the queue snapshot and
\* then a turn_update to the room carrying the rotated registry and its head B.
C6_HeadAddRotatesAndBroadcasts ==
    ( /\ ev.op = "add_video" /\ ev.vid # <<>> /\ get_room_by_name(ev.room) # NoRoom
      /\ Len(ev.tq0) >= 2 /\ ev.tq0[1] = ev.user ) =>
        /\ Admitted
        /\ \E i \in QueueItem \ ev.items0 :
              /\ i.id = ev.id /\ i.added_by = ev.user
              /\ i.video_url = WATCH_PREFIX \o ev.vid
              /\ QueueItem = ev.items0 \cup {i}
        /\ Rotated(ev.tq0, TurnNow)
        /\ Len(out) = 2
        /\ out[1].name = "video_added" /\ out[1].to = ev.room
        /\ Len(out[1].video_queue) = Len(ev.q0) + 1
        /\ out[2].name = "turn_update" /\ out[2].to = ev.room
        /\ out[2].current_turn = ev.tq0[2]
        /\ out[2].turn_queue = TurnNow

\* a non-moderator at the head of a registry of two adds
C6_Witness == Admitted /\ ~ev.mod /\ Len(ev.tq0) = 2 /\ ev.tq0[1] = ev.user

\* C7 as stated: an add into an empty room with an empty registry is admitted, leaves one
\* item and a clock running from 0 for it, and the registry is then [A] with head A.
C7_Original ==
    ( /\ ev.op = "add_video" /\ ev.vid # <<>> /\ get_room_by_name(ev.room) # NoRoom
      /\ ev.tq0 = <<>> /\ ev.q0 = <<>> ) =>
        /\ Admitted
        /\ Len(get_queue_for_room(QueueItem, ev.room)) = 1
        /\ ev.room \in DOMAIN room_clock
        /\ room_clock[ev.room] = ClockStart(ev.vid, now)
        /\ TurnNow = <<ev.user>>
        /\ get_current_turn(TurnNow) = ev.user

\* C7 amended: such an add is admitted (also for a non-moderator), leaves exactly one item
\* and a clock running from base 0 for it, and the registry stays empty, with no head: the
\* add does not enter the adder in the registry.
C7_AddOnEmptyRegistry ==
    ( /\ ev.op = "add_video" /\ ev.vid # <<>> /\ get_room_by_name(ev.room) # NoRoom
      /\ ev.tq0 = <<>> /\ ev.q0 = <<>> ) =>
        /\ Admitted
        /\ Len(get_queue_for_room(QueueItem, ev.room)) = 1
        /\ get_queue_for_room(QueueItem, ev.room)[1].video_url = WATCH_PREFIX \o ev.vid
        /\ ev.room \in DOMAIN room_clock
        /\ room_clock[ev.room] = ClockStart(ev.vid, now)
        /\ positionNow(room_clock, ev.room, now) = 0
        /\ TurnNow = <<>>
        /\ get_current_turn(TurnNow) = None

\* a non-moderator adds into an empty room whose registry is empty
C7_Witness == Admitted /\ ~ev.mod /\ ev.tq0 = <<>> /\ ev.q0 = <<>>

\* q without its entries equal to x
RECURSIVE Without(_, _)
Without(q, x) ==
    IF q = <<>> THEN <<>>
    ELSE (IF Head(q) = x THEN <<>> ELSE <<Head(q)>>) \o Without(Tail(q), x)

\* C8: a disconnect removes the participant's identity (the name on_connect entered:
\* get_display_name()) from the bound room's registry wherever it stands, keeps the order
\* of the others, and unbinds the session; it emits the departure notice and then a
\* turn_update with the new registry and head (the head of [A, B, C] leaving gives
\* [B, C] with head B).
C8_DisconnectRemoves ==
    ev.op = "disconnect" =>
        /\ TurnNow = Without(ev.tq0, ev.user)
        /\ ~InSeq(ev.user, TurnNow)
        /\ (ev.tq0 # <<>> /\ ev.tq0[1] = ev.user) => TurnNow = Tail(ev.tq0)
        /\ ev.sid \in DOMAIN ev.user_rooms0 /\ ev.user_rooms0[ev.sid] = ev.room
        /\ ev.sid \notin DOMAIN user_rooms
        /\ Len(out) = 2
        /\ out[1].name = "new_message" /\ out[1].to = ev.room
        /\ out[2].name = "turn_update" /\ out[2].to = ev.room
        /\ out[2].turn_queue = TurnNow
        /\ out[2].current_turn = get_current_turn(TurnNow)

\* the head of a registry of three disconnects
C8_Witness ==
    /\ ev.op = "disconnect" /\ Len(ev.tq0) = 3 /\ ev.tq0[1] = ev.user
    /\ get_current_turn(TurnNow) = ev.tq0[2]

\* the ordered playback queue of the room the last handler ran on
QueueNow == get_queue_for_room(QueueItem, ev.room)

StrictlyIncreasing(q) == \A k \in 1..(Len(q) - 1) : q[k].id < q[k + 1].id

\* C9: every room's ordered listing is strictly increasing by item id and holds exactly
\* the room's rows; the active item is its first element (none iff the listing is empty);
\* an added item gets an id larger than every surviving one, so it is listed last.
C9_QueueOrdered ==
    /\ \A r \in RoomNames :
          LET q == get_queue_for_room(QueueItem, r)
              active == get_current_video_for_room(QueueItem, r)
          IN  /\ StrictlyIncreasing(q)
              /\ Len(q) = Cardinality({i \in QueueItem : i.room_id = r})
              /\ get_queue(QueueItem, r) = q
              /\ (active = NoItem) <=> (q = <<>>)
              /\ q # <<>> => active = q[1]
    /\ Admitted =>
          /\ \A i \in ev.items0 : i.id < ev.id
          /\ Len(QueueNow) = Len(ev.q0) + 1
          /\ \A k \in 1..Len(ev.q0) : QueueNow[k] = ev.q0[k]
          /\ QueueNow[Len(QueueNow)].id = ev.id

\* an item is added behind a surviving one after the first item was removed
C9_Witness == Admitted /\ Len(ev.q0) = 1 /\ ev.q0[1].id > 1

\* C10: a moderator's skip and an end-of-playback report do the same: they remove the
\* active item only (nothing on an empty queue), keep the rest in order, and set the
\* room's clock to running from base 0 at the current instant for the new active item,
\* or to paused at 0 with no item when the queue is left empty.
C10_SkipAndEndedAlike ==
    (ev.op = "video_ended" \/ (ev.op = "skip_song" /\ ev.ok)) =>
        /\ QueueNow = (IF ev.q0 = <<>> THEN <<>> ELSE Tail(ev.q0))
        /\ QueueItem = (IF ev.q0 = <<>> THEN ev.items0 ELSE ev.items0 \ {ev.q0[1]})
        /\ ev.room \in DOMAIN room_clock
        /\ room_clock[ev.room] =
              (IF QueueNow # <<>>
               THEN [video_id |-> extract_video_id(QueueNow[1].video_url),
                     base |-> 0, started_at |-> now]
               ELSE [video_id |-> <<>>, base |-> 0, started_at |-> NotStarted])
        /\ positionNow(room_clock, ev.room, now) = 0
        /\ \A r \in DOMAIN ev.clock0 \ {ev.room} : room_clock[r] = ev.clock0[r]
        /\ room_turn_queues = ev.rtq0

\* a moderator skips the first of two items while its clock has been running for a while
C10_Witness ==
    /\ ev.op = "skip_song" /\ ev.ok /\ Len(ev.q0) = 2 /\ Len(QueueNow) = 1
    /\ ev.room \in DOMAIN ev.clock0
    /\ ev.clock0[ev.room].started_at # NotStarted
    /\ ev.clock0[ev.room].started_at < now
    /\ ev.clock0[ev.room].video_id # room_clock[ev.room].video_id

\* the persisted mirror of a room name, read in position order (no row: no mirror)
MirrorOf(rto, room_name) ==
    LET room == get_room_by_name(room_name)
    IN  IF room = NoRoom THEN <<>> ELSE rto[room.name]

\* the last handler changed the room's turn registry (each mutator calls save_turn_queue
\* exactly when it changed the deque)
Mutated == ev.op \in {"connect", "join", "disconnect", "add_video"} /\ ev.saved

\* C11 as stated: after every mutating registry operation the room's persisted mirror
\* equals its in-memory registry.
C11_Original == Mutated => MirrorOf(RoomTurnOrder, ev.room) = TurnNow

\* C11 amended: after a mutating registry operation on a room that has a row in rooms and
\* whose mirror commit succeeds, the mirror equals the registry; for a room name without
\* a row nothing is persisted.
C11_MirrorFollows ==
    Mutated =>
        /\ (ev.dbok /\ get_room_by_name(ev.room) # NoRoom)
              => MirrorOf(RoomTurnOrder, ev.room) = TurnNow
        /\ get_room_by_name(ev.room) = NoRoom => RoomTurnOrder = ev.rto0

\* a rotation is flushed over a mirror that an earlier failed commit had left behind
C11_Witness ==
    /\ Mutated /\ ev.op = "add_video" /\ ev.dbok /\ Len(ev.tq0) = 2
    /\ MirrorOf(ev.rto0, ev.room) # ev.tq0
    /\ MirrorOf(RoomTurnOrder, ev.room) = TurnNow

C12_RestartWitness ==
    /\ ev.op = "connect" /\ ev.room \notin DOMAIN ev.rtq0
    /\ Len(ev.tq0) = 2 /\ ev.tq0 = MirrorOf(ev.rto0, ev.room)

\* C13: when the commit of the new queue row fails in an add that passed the turn check,
\* the handler emits nothing and leaves the playback queue, the turn registry, its mirror
\* and the clock as they were.
C13_FailedAddAborts ==
    ( /\ ev.op = "add_video" /\ ev.vid # <<>> /\ get_room_by_name(ev.room) # NoRoom
      /\ ~TurnViolation(ev.mod, get_current_turn(ev.tq0), ev.user)
      /\ ~ev.itemok ) =>
        /\ ev.name = "failed"
        /\ out = <<>>
        /\ QueueItem = ev.items0
        /\ QueueNow = ev.q0
        /\ TurnNow = ev.tq0
        /\ \A r \in DOMAIN ev.rtq0 : room_turn_queues[r] = ev.rtq0[r]
        /\ RoomTurnOrder = ev.rto0
        /\ room_clock = ev.clock0

\* the head of a registry of two fails to persist the first item of an empty queue
C13_Witness ==
    /\ ev.op = "add_video" /\ ev.name = "failed" /\ ~ev.itemok
    /\ Len(ev.tq0) = 2 /\ ev.tq0[1] = ev.user /\ ev.q0 = <<>>

\* C14: the turn check, the append and the advance of one add form one step with respect
\* to the other events on the room: when the item is appended and when the turn is
\* advanced, the head is the head the turn check read (no other add was checked against
\* the same turn state and advanced it meanwhile), and an admitted non-moderator is still
\* head, or the registry still empty.
C14_AddsSerialized ==
    (ev.op = "add_video" /\ ev.name \in {"committed", "admitted"}) =>
        /\ get_current_turn(ev.tq0) = get_current_turn(ev.tqc)
        /\ ~ev.mod => (ev.tq0 = <<>> \/ ev.tq0[1] = ev.user)

\* C15: when an add, a skip or an end of playback makes another item the active one, then
\* as the handler returns the room's clock names that item (by the id the handlers
\* extract from its URL) and runs from base 0 at the current instant.
C15_ClockFollowsActive ==
    ( /\ QueueNow # <<>>
      /\ \/ Admitted /\ QueueNow[1].id = ev.id
         \/ (ev.op = "video_ended" \/ (ev.op = "skip_song" /\ ev.ok)) /\ ev.q0 # <<>> ) =>
        /\ ev.room \in DOMAIN room_clock
        /\ room_clock[ev.room] = ClockStart(extract_video_id(QueueNow[1].video_url), now)
        /\ positionNow(room_clock, ev.room, now) = 0

\* C16: after a skip, an end of playback, a clear or a removal that leaves the room's
\* playback queue empty, the clock holds no active item, is not running, and the position
\* is 0.
C16_PauseOnEmpty ==
    ( /\ ev.op \in {"skip_song", "video_ended", "clear_queue", "remove_video"} /\ ev.ok
      /\ QueueNow = <<>> ) =>
        /\ ev.room \in DOMAIN room_clock => room_clock[ev.room] = ClockPause
        /\ positionNow(room_clock, ev.room, now) = 0

\* the row a removal names
Target == CHOOSE i \in ev.items0 : i.id = ev.id

\* C17: a skip or a clear by a participant without moderation rights, and a removal by one
\* who neither contributed the item nor moderates, are denied: the playback queue, the
\* clock, the turn registry and its mirror stay as they were and nothing is emitted.
C17_DeniedChangesNothing ==
    ( \/ ev.op \in {"skip_song", "clear_queue"} /\ ~ev.mod
      \/ ev.op = "remove_video" /\ ~ev.mod /\ Target.added_by # ev.user ) =>
        /\ ev.name = "denied"
        /\ QueueItem = ev.items0
        /\ room_clock = ev.clock0
        /\ room_turn_queues = ev.rtq0
        /\ RoomTurnOrder = ev.rto0
        /\ out = <<>>

\* a participant asks to remove the active item, which the moderator contributed, while
\* its clock runs
C17_Witness ==
    /\ ev.op = "remove_video" /\ ev.name = "denied" /\ ~ev.mod
    /\ ev.q0 # <<>> /\ ev.q0[1].id = ev.id /\ Target.added_by # ev.user
    /\ ev.room \in DOMAIN room_clock /\ room_clock[ev.room].started_at # NotStarted

\* the Main Room registry
MainTurns == TurnQueueOf(room_turn_queues, MAIN_ROOM_NAME)

\* C18: in a registry of n >= 2 every admitted add, by a moderator or not, rotates the
\* registry by one, so the head changes; and while nobody joins or leaves, no member has
\* waited n admitted adds without being head.
C18_RotationFair ==
    /\ (Admitted /\ Len(ev.tq0) >= 2) =>
          /\ Rotated(ev.tq0, TurnNow)
          /\ get_current_turn(TurnNow) = ev.tq0[2]
          /\ get_current_turn(TurnNow) # get_current_turn(ev.tq0)
    /\ Len(MainTurns) >= 2 =>
          \A u \in Users : InSeq(u, MainTurns) => waited[u] <= Len(MainTurns) - 1

\* a moderator who is not head adds to a registry of three, and a member has then waited
\* two admitted adds
C18_Witness ==
    /\ Admitted /\ ev.mod /\ Len(ev.tq0) = 3 /\ ev.tq0[1] # ev.user
    /\ \E u \in Users : InSeq(u, MainTurns) /\ waited[u] = 2

\* C19: a connect or join binds the session to the room and appends the identity to the
\* registry only if it is absent; user_joined goes to the room only if this event created
\* the identity's registry entry.
C19_JoinedOnlyIfNew ==
    ev.op \in {"connect", "join"} =>
        /\ ev.sid \in DOMAIN user_rooms /\ user_rooms[ev.sid] = ev.room
        /\ TurnNow = (IF InSeq(ev.name, ev.tq0) THEN ev.tq0 ELSE Append(ev.tq0, ev.name))
        /\ \A k \in 1..Len(out) :
              out[k].name = "user_joined" => (out[k].to = ev.room /\ ~InSeq(ev.name, ev.tq0))

\* C20: a sync request restarts the clock at 0 for the queue's active item when the clock
\* has no record or records another item, pauses it at 0 when the queue is empty, and
\* leaves it untouched when it records the active item (under the id the handlers extract
\* from the item's URL, or under the id the item was added with); afterwards the clock
\* names the active item; the queue, the registry and its mirror are unchanged and the
\* one reply goes to the requester.
C20_SyncOnDrift ==
    ev.op = "request_sync" =>
        LET head_id == IF ev.q0 # <<>> THEN extract_video_id(ev.q0[1].video_url) ELSE <<>>
            recorded == /\ ev.room \in DOMAIN ev.clock0
                        /\ \/ ev.clock0[ev.room].video_id = head_id
                           \/ WATCH_PREFIX \o ev.clock0[ev.room].video_id = ev.q0[1].video_url
        IN  /\ ev.room \in DOMAIN room_clock
            /\ room_clock[ev.room] =
                  (IF ev.q0 = <<>> THEN ClockPause
                   ELSE IF recorded THEN ev.clock0[ev.room]
                   ELSE ClockStart(head_id, now))
            /\ ev.q0 # <<>> => room_clock[ev.room].video_id = head_id
            /\ \A r \in DOMAIN ev.clock0 \ {ev.room} : room_clock[r] = ev.clock0[r]
            /\ QueueItem = ev.items0
            /\ room_turn_queues = ev.rtq0
            /\ RoomTurnOrder = ev.rto0
            /\ Len(out) = 1 /\ out[1].name = "sync" /\ out[1].to = ev.sid

\* C21: a join, add, skip, end of playback, sync request or disconnect handled for one
\* room name (also one whose mirror commit fails) leaves the playback queue, in-memory
\* registry, persisted mirror and clock of every other room name that has a registry in
\* memory as they were.
C21_RoomsIndependent ==
    ev.op \in {"connect", "join", "add_video", "skip_song", "video_ended", "request_sync",
               "disconnect"} =>
        \A r \in DOMAIN ev.rtq0 \ {ev.room} :
            /\ get_queue_for_room(QueueItem, r) = get_queue_for_room(ev.items0, r)
            /\ MirrorOf(RoomTurnOrder, r) = MirrorOf(ev.rto0, r)
            /\ r \in DOMAIN room_turn_queues /\ room_turn_queues[r] = ev.rtq0[r]
            /\ r \in DOMAIN ev.clock0 => (r \in DOMAIN room_clock /\ room_clock[r] = ev.clock0[r])

\* the identities that have a live session bound to the room
Present(room_name) ==
    {conns[sid].user : sid \in {x \in DOMAIN user_rooms : Live(x) /\ user_rooms[x] = room_name}}

\* the identities in the room's registry
Registered(room_name) ==
    IF room_name \in DOMAIN room_turn_queues
    THEN {room_turn_queues[room_name][i] : i \in 1..Len(room_turn_queues[room_name])}
    ELSE {}

\* C22: after any connect, join or disconnect, every room's registry holds exactly the
\* identities that have a live session bound to that room.
C22_RegistryIsPresence ==
    ev.op \in {"connect", "join", "disconnect"} =>
        \A r \in RoomNames : Registered(r) = Present(r)

\* the rows the handler that ran last has deleted
Removed == ev.items0 \ QueueItem

\* C23: a video_ended sent when the playback of an item ended removes that item and
\* no other: when two sessions report the end of the same active item, the queue loses
\* that item only.
C23_EndRemovesReportedOnly ==
    (ev.op = "video_ended" /\ reports[ev.sid].item # 0 /\ ~reports[ev.sid].sent) =>
        \A i \in Removed : i.id = reports[ev.sid].item

====
